---- MODULE Spec2Model ----
(***************************************************************************)
(* django_database_translation: the four translation tables (Field, Item,  *)
(* Language, Translation) of models.py, the owning objects that the Items  *)
(* point at, and the helpers of utils.py (session language, serializer).   *)
(***************************************************************************)
EXTENDS Integers, Sequences, FiniteSets, Bags, TLC

VARIABLES
    ddt_fields,        \* rows of Field: [id, content_type, name]
    ddt_items,         \* rows of Item: [id, field, object_id, content_type]
    ddt_languages,     \* rows of Language: [id, name, iso2, iso3, django_language_name]
    ddt_translations,  \* rows of Translation, a bag of [language, item, text]
    objects,           \* instances of the translated models: [content_type, id, link, file]
    pk,                \* next primary key of every table (auto-increment, never reused)
    session,           \* request.session[LANGUAGE_SESSION_KEY], NoValue when the key is absent
    locale,            \* the locale activated in the host framework
    ops,            \* number of writes made to the store so far
    call               \* the last operation and its outcome

vars == <<ddt_fields, ddt_items, ddt_languages, ddt_translations, objects, pk,
          session, locale, ops, call>>

store == <<ddt_fields, ddt_items, ddt_languages, ddt_translations, objects, pk, ops>>

----------------------------------------------------------------------------
(* Bounds of the model *)

(* A behaviour makes at most MaxOps writes to the store. *)
MaxOps == 7

(* The models of the host application that are declared translatable. *)
ContentTypes == {"author", "book"}

(* Names of the attributes an administrator registers as Field rows. *)
FieldNames == {"label"}

(* Texts written into Translation.text; "" is the column default. *)
Texts == {"", "x"}

(* Values of a FileField attribute of an owning object: "" is the empty file. *)
Files == {"", "a.png"}

None == "None"
NoValue == "NoValue"
DefaultLocale == "settings.LANGUAGE_CODE"

----------------------------------------------------------------------------
(* str.upper() on the characters the language codes are written with *)

LowerChars == <<"a", "e", "f", "g", "n", "r">>
UpperChars == <<"A", "E", "F", "G", "N", "R">>

UpperChar(c) ==
    IF \E i \in DOMAIN LowerChars : LowerChars[i] = c
        THEN UpperChars[CHOOSE i \in DOMAIN LowerChars : LowerChars[i] = c]
        ELSE c

upper(s) == [i \in DOMAIN s |-> UpperChar(s[i])]

(* The values a caller hands to Language(...) before save(). *)
LanguageInputs == {
    [name |-> "French",  iso2 |-> <<"f", "r">>, iso3 |-> <<"F", "r", "a">>,
     django_language_name |-> "fr"],
    [name |-> "English", iso2 |-> <<"E", "N">>, iso3 |-> <<"e", "n", "g">>,
     django_language_name |-> "en"] }

----------------------------------------------------------------------------
(* Helpers over sets of primary keys *)

Max(S) == CHOOSE m \in S : \A n \in S : n <= m
Min(S) == CHOOSE m \in S : \A n \in S : m <= n

RECURSIVE Sorted(_)
Sorted(S) == IF S = {} THEN <<>> ELSE <<Min(S)>> \o Sorted(S \ {Min(S)})

Ids(rows) == {r.id : r \in rows}

----------------------------------------------------------------------------
(* The relational store as one value, so that a handler and the signals it *)
(* triggers are computed as one step.                                      *)

DB == [fields |-> ddt_fields, items |-> ddt_items, languages |-> ddt_languages,
       translations |-> ddt_translations, pk |-> pk]

Commit(db) ==
    /\ ddt_fields' = db.fields
    /\ ddt_items' = db.items
    /\ ddt_languages' = db.languages
    /\ ddt_translations' = db.translations
    /\ pk' = db.pk

(* Field.Meta.unique_together: no other row with this (content_type, name). *)
Field_unique_together(rows, content_type, name) ==
    ~ \E f \in rows : f.content_type = content_type /\ f.name = name

(* Item.Meta.unique_together: no other row with this (field, object_id). *)
Item_unique_together(rows, field, object_id) ==
    ~ \E i \in rows : i.field = field /\ i.object_id = object_id

(* Translation.Meta.unique_together: no other row with this (language, item). *)
Translation_unique_together_NoConstraint(rows, language, item) == TRUE

Translation_unique_together(rows, language, item) ==
    ~ \E t \in BagToSet(rows) : t.language = language /\ t.item = item

(* Language: name, iso2, iso3 and django_language_name are each unique=True. *)
Language_unique(rows, row) ==
    ~ \E l \in rows :
        /\ l.id # row.id
        /\ \/ l.name = row.name
           \/ l.iso2 = row.iso2
           \/ l.iso3 = row.iso3
           \/ l.django_language_name = row.django_language_name

(* The rows a foreign key relates to a parent row. *)
ItemsOfField_ById(rows, field) == {i.id : i \in {r \in rows : r.id = field}}

ItemsOfField(rows, field) == {i.id : i \in {r \in rows : r.field = field}}

TranslationsOfItems(rows, item_ids) == {t \in BagToSet(rows) : t.item \in item_ids}

TranslationsOfLanguage(rows, language) == {t \in BagToSet(rows) : t.language = language}

(* The table without the rows of a set (every copy of them). *)
Without(rows, gone) == [t \in BagToSet(rows) \ gone |-> rows[t]]

(* The table with one more row. *)
Insert(rows, row) == rows (+) SetToBag({row})

(* Item.of: the Items whose generic foreign key designates an object. *)
ItemsOfObject(rows, content_type, object_id) ==
    {i.id : i \in {r \in rows : r.content_type = content_type /\ r.object_id = object_id}}

----------------------------------------------------------------------------
(* signals.py: the rows created in reaction to a creation *)

(* One Translation, text "", for (item, language) unless the pair has one. *)
NewTranslation(db, item, language) ==
    IF Translation_unique_together(db.translations, language, item)
        THEN [db EXCEPT !.translations =
                    Insert(@, [language |-> language, item |-> item, text |-> ""])]
        ELSE db

RECURSIVE TranslationsForItem(_, _, _)
TranslationsForItem(db, item, langs) ==
    IF langs = <<>> THEN db
    ELSE TranslationsForItem(NewTranslation(db, item, Head(langs)), item, Tail(langs))

RECURSIVE TranslationsForLanguage(_, _, _)
TranslationsForLanguage(db, language, item_ids) ==
    IF item_ids = <<>> THEN db
    ELSE TranslationsForLanguage(NewTranslation(db, Head(item_ids), language),
                                 language, Tail(item_ids))

(* Item post_save (created): one Translation per Language. *)
Item_post_save(db, item) == TranslationsForItem(db, item, Sorted(Ids(db.languages)))

(* One Item for (field, object) unless the pair has one, then its signal. *)
NewItem(db, field, object_id, content_type) ==
    IF Item_unique_together(db.items, field, object_id)
        THEN Item_post_save(
                [db EXCEPT
                    !.items = @ \cup {[id |-> db.pk.item, field |-> field,
                                       object_id |-> object_id,
                                       content_type |-> content_type]},
                    !.pk.item = @ + 1],
                db.pk.item)
        ELSE db

RECURSIVE ItemsForField(_, _, _)
ItemsForField(db, field, object_ids) ==
    IF object_ids = <<>> THEN db
    ELSE ItemsForField(NewItem(db, field.id, Head(object_ids), field.content_type),
                       field, Tail(object_ids))

RECURSIVE ItemsForObject(_, _, _, _)
ItemsForObject(db, content_type, object_id, field_ids) ==
    IF field_ids = <<>> THEN db
    ELSE ItemsForObject(NewItem(db, Head(field_ids), object_id, content_type),
                        content_type, object_id, Tail(field_ids))

(* Field post_save (created): one Item per existing object of the model. *)
Field_post_save(db, field) ==
    ItemsForField(db, field,
        Sorted({o.id : o \in {x \in objects : x.content_type = field.content_type}}))

(* Language post_save (created): one Translation per existing Item. *)
Language_post_save(db, language) ==
    TranslationsForLanguage(db, language, Sorted(Ids(db.items)))

(* post_save of a translated model (created): one Item per Field of the model. *)
Object_post_save(db, content_type, object_id) ==
    ItemsForObject(db, content_type, object_id,
        Sorted(Ids({f \in db.fields : f.content_type = content_type})))

(* on_delete=CASCADE from Item to Translation. *)
DeleteItems(db, item_ids) ==
    [db EXCEPT !.items = {i \in @ : i.id \notin item_ids},
               !.translations = Without(@, TranslationsOfItems(@, item_ids))]

----------------------------------------------------------------------------
(* Initial state: empty tables, no session language *)

(* django.db.IntegrityError, by the constraint that raised it. *)
UniqueViolation == "IntegrityError: unique constraint"
ForeignKeyViolation == "IntegrityError: foreign key constraint"

NoLink == [content_type |-> None, id |-> 0]

Ref(o) == [content_type |-> o.content_type, id |-> o.id]

(* What the caller of an operation sees: the operation and the exception   *)
(* it raised, "" when it returned.                                         *)
Done(op, err) == call' = [op |-> op, err |-> err]

Init ==
    /\ ddt_fields = {}
    /\ ddt_items = {}
    /\ ddt_languages = {}
    /\ ddt_translations = EmptyBag
    /\ objects = {}
    /\ pk = [field |-> 1, item |-> 1, language |-> 1,
             object |-> [c \in ContentTypes |-> 1]]
    /\ session = NoValue
    /\ locale = DefaultLocale
    /\ ops = 0
    /\ call = [op |-> "init", err |-> ""]

----------------------------------------------------------------------------
(* Field *)

(* Field.objects.create(content_type, name), then the signal creating Items. *)
Field_create(content_type, name) ==
    /\ ops < MaxOps
    /\ IF Field_unique_together(ddt_fields, content_type, name)
        THEN LET row == [id |-> pk.field, content_type |-> content_type, name |-> name]
                 db == [DB EXCEPT !.fields = @ \cup {row}, !.pk.field = @ + 1]
             IN /\ Commit(Field_post_save(db, row))
                /\ ops' = ops + 1
                /\ Done("Field.create", "")
        ELSE /\ Commit(DB)
             /\ ops' = ops
             /\ Done("Field.create", UniqueViolation)
    /\ UNCHANGED <<objects, session, locale>>

(* field.delete(): the Items of the Field and their Translations go with it. *)
Field_delete(field) ==
    /\ ops < MaxOps
    /\ field \in Ids(ddt_fields)
    /\ Commit(DeleteItems([DB EXCEPT !.fields = {f \in @ : f.id # field}],
                          ItemsOfField(ddt_items, field)))
    /\ ops' = ops + 1
    /\ Done("Field.delete", "")
    /\ UNCHANGED <<objects, session, locale>>

----------------------------------------------------------------------------
(* Language *)

(* Language.save() upper-casing iso2 only. *)
Language_save_Iso2Only(row) == [row EXCEPT !.iso2 = upper(@)]

(* Language.save(): both codes are upper-cased before the row is written. *)
Language_save(row) == [row EXCEPT !.iso2 = upper(@), !.iso3 = upper(@)]

LanguageRow(id, input) ==
    [id |-> id, name |-> input.name, iso2 |-> input.iso2, iso3 |-> input.iso3,
     django_language_name |-> input.django_language_name]

(* Language(...).save() of a new row, then the signal creating Translations. *)
Language_create(input) ==
    /\ ops < MaxOps
    /\ LET row == Language_save(LanguageRow(pk.language, input))
       IN IF Language_unique(ddt_languages, row)
            THEN /\ Commit(Language_post_save(
                        [DB EXCEPT !.languages = @ \cup {row}, !.pk.language = @ + 1],
                        row.id))
                 /\ ops' = ops + 1
                 /\ Done("Language.create", "")
            ELSE /\ Commit(DB)
                 /\ ops' = ops
                 /\ Done("Language.create", UniqueViolation)
    /\ UNCHANGED <<objects, session, locale>>

(* An existing row is given new values and saved again. *)
Language_modify(language, input) ==
    /\ ops < MaxOps
    /\ language \in Ids(ddt_languages)
    /\ LET row == Language_save(LanguageRow(language, input))
       IN IF Language_unique(ddt_languages, row)
            THEN /\ Commit([DB EXCEPT !.languages =
                                {l \in @ : l.id # language} \cup {row}])
                 /\ ops' = ops + 1
                 /\ Done("Language.modify", "")
            ELSE /\ Commit(DB)
                 /\ ops' = ops
                 /\ Done("Language.modify", UniqueViolation)
    /\ UNCHANGED <<objects, session, locale>>

(* language.delete(): its Translations go with it. *)
Language_delete(language) ==
    /\ ops < MaxOps
    /\ language \in Ids(ddt_languages)
    /\ Commit([DB EXCEPT !.languages = {l \in @ : l.id # language},
                         !.translations =
                            Without(@, TranslationsOfLanguage(@, language))])
    /\ ops' = ops + 1
    /\ Done("Language.delete", "")
    /\ UNCHANGED <<objects, session, locale>>

----------------------------------------------------------------------------
(* Instances of the translated models *)

(* A new instance of a translated model, then the signal creating its Items. *)
Object_create(content_type) ==
    /\ ops < MaxOps
    /\ LET id == pk.object[content_type]
       IN /\ objects' = objects \cup {[content_type |-> content_type, id |-> id,
                                        link |-> NoLink, file |-> ""]}
          /\ Commit(Object_post_save([DB EXCEPT !.pk.object[content_type] = @ + 1],
                                     content_type, id))
          /\ ops' = ops + 1
          /\ Done("Object.create", "")
    /\ UNCHANGED <<session, locale>>

(* An instance is given another foreign key or file and saved. *)
Object_update(o, link, file) ==
    /\ ops < MaxOps
    /\ o \in objects
    /\ link = NoLink \/ \E x \in objects : link = Ref(x)
    /\ <<link, file>> # <<o.link, o.file>>
    /\ objects' = (objects \ {o}) \cup {[o EXCEPT !.link = link, !.file = file]}
    /\ ops' = ops + 1
    /\ Done("Object.update", "")
    /\ UNCHANGED <<ddt_fields, ddt_items, ddt_languages, ddt_translations, pk,
                   session, locale>>

(* An instance is deleted: its Items (and their Translations) are deleted, *)
(* and the foreign keys of the instances that pointed at it become null.   *)
Object_delete(o) ==
    /\ ops < MaxOps
    /\ o \in objects
    /\ objects' = {IF x.link = Ref(o) THEN [x EXCEPT !.link = NoLink] ELSE x :
                        x \in objects \ {o}}
    /\ Commit(DeleteItems(DB, ItemsOfObject(ddt_items, o.content_type, o.id)))
    /\ ops' = ops + 1
    /\ Done("Object.delete", "")
    /\ UNCHANGED <<session, locale>>

----------------------------------------------------------------------------
(* Item and Translation rows written directly through the ORM *)

(* Item.objects.create(field, object_id, content_type): field is a foreign *)
(* key, object_id a bare PositiveIntegerField that no constraint ties to a *)
(* row of the model.                                                       *)
Item_create(field, object_id) ==
    /\ ops < MaxOps
    /\ IF field \in Ids(ddt_fields) /\ Item_unique_together(ddt_items, field, object_id)
        THEN LET f == CHOOSE x \in ddt_fields : x.id = field
             IN /\ Commit(NewItem(DB, field, object_id, f.content_type))
                /\ ops' = ops + 1
                /\ Done("Item.create", "")
        ELSE /\ Commit(DB)
             /\ ops' = ops
             /\ Done("Item.create", IF field \in Ids(ddt_fields)
                                        THEN UniqueViolation ELSE ForeignKeyViolation)
    /\ UNCHANGED <<objects, session, locale>>

(* item.delete(): its Translations go with it. *)
Item_delete(item) ==
    /\ ops < MaxOps
    /\ item \in Ids(ddt_items)
    /\ Commit(DeleteItems(DB, {item}))
    /\ ops' = ops + 1
    /\ Done("Item.delete", "")
    /\ UNCHANGED <<objects, session, locale>>

(* Translation.objects.create(language, item, text). *)
Translation_create(language, item, text) ==
    /\ ops < MaxOps
    /\ IF /\ language \in Ids(ddt_languages)
          /\ item \in Ids(ddt_items)
          /\ Translation_unique_together(ddt_translations, language, item)
        THEN /\ Commit([DB EXCEPT !.translations =
                    Insert(@, [language |-> language, item |-> item, text |-> text])])
             /\ ops' = ops + 1
             /\ Done("Translation.create", "")
        ELSE /\ Commit(DB)
             /\ ops' = ops
             /\ Done("Translation.create",
                     IF language \in Ids(ddt_languages) /\ item \in Ids(ddt_items)
                        THEN UniqueViolation ELSE ForeignKeyViolation)
    /\ UNCHANGED <<objects, session, locale>>

(* translation.delete(). *)
Translation_delete(translation) ==
    /\ ops < MaxOps
    /\ BagIn(translation, ddt_translations)
    /\ Commit([DB EXCEPT !.translations = @ (-) SetToBag({translation})])
    /\ ops' = ops + 1
    /\ Done("Translation.delete", "")
    /\ UNCHANGED <<objects, session, locale>>

(* translation.text = text; translation.save(). *)
Translation_update(translation, text) ==
    /\ ops < MaxOps
    /\ BagIn(translation, ddt_translations)
    /\ text # translation.text
    /\ Commit([DB EXCEPT !.translations =
                    Insert(@ (-) SetToBag({translation}),
                           [translation EXCEPT !.text = text])])
    /\ ops' = ops + 1
    /\ Done("Translation.update", "")
    /\ UNCHANGED <<objects, session, locale>>

----------------------------------------------------------------------------
(* The store's life cycle *)

(* The object ids a caller may write into Item.object_id: those handed out *)
(* so far and the next one.                                                *)
NextObjectId == Max({pk.object[c] : c \in ContentTypes})

Next ==
    \/ \E c \in ContentTypes, n \in FieldNames : Field_create(c, n)
    \/ \E f \in Ids(ddt_fields) : Field_delete(f)
    \/ \E i \in LanguageInputs : Language_create(i)
    \/ \E l \in Ids(ddt_languages), i \in LanguageInputs : Language_modify(l, i)
    \/ \E l \in Ids(ddt_languages) : Language_delete(l)
    \/ \E c \in ContentTypes : Object_create(c)
    \/ \E o \in objects : Object_delete(o)
    \/ \E f \in Ids(ddt_fields) \cup {pk.field}, o \in 1..NextObjectId : Item_create(f, o)
    \/ \E i \in Ids(ddt_items) : Item_delete(i)
    \/ \E l \in Ids(ddt_languages), i \in Ids(ddt_items) \cup {pk.item}, t \in Texts :
            Translation_create(l, i, t)
    \/ \E t \in BagToSet(ddt_translations) : Translation_delete(t)
    \/ \E t \in BagToSet(ddt_translations), x \in Texts : Translation_update(t, x)

Spec == Init /\ [][Next]_vars

----------------------------------------------------------------------------
(* count_missing_translations *)

(* Number of rows of a table that belong to a set of rows. *)
Count(rows, S) == BagCardinality([t \in S \cap BagToSet(rows) |-> rows[t]])

(* Field.count_missing_translations without the text="" filter. *)
Field_count_missing_translations_AnyText(field) ==
    Count(ddt_translations,
          {t \in BagToSet(ddt_translations) :
                \E i \in ddt_items : i.id = t.item /\ i.field = field.id})

(* Translation.objects.filter(item__field=self).filter(text="").count() *)
Field_count_missing_translations(field) ==
    Count(ddt_translations,
          {t \in BagToSet(ddt_translations) :
                /\ \E i \in ddt_items : i.id = t.item /\ i.field = field.id
                /\ t.text = ""})

(* Translation.objects.filter(item=self).filter(text="").count() *)
Item_count_missing_translations(item) ==
    Count(ddt_translations,
          {t \in BagToSet(ddt_translations) : t.item = item.id /\ t.text = ""})

(* Translation.objects.filter(language=self).filter(text="").count() *)
Language_count_missing_translations(language) ==
    Count(ddt_translations,
          {t \in BagToSet(ddt_translations) : t.language = language.id /\ t.text = ""})

----------------------------------------------------------------------------
(* Properties of the store *)

RECURSIVE Sum(_, _)
Sum(F(_), S) ==
    IF S = {} THEN 0
    ELSE LET x == CHOOSE y \in S : TRUE IN F(x) + Sum(F, S \ {x})

Pairs == {<<t.item, t.language>> : t \in BagToSet(ddt_translations)}

RowsOfPair(p) ==
    Count(ddt_translations,
          {t \in BagToSet(ddt_translations) : t.item = p[1] /\ t.language = p[2]})

(* C1: in every reachable state there is at most one Translation row for   *)
(* any (Item, Language) pair: a second one is never stored.                *)
C1_TranslationUnique == \A p \in Pairs : RowsOfPair(p) = 1

(* C1 witness: a Translation was created for a pair that already had one   *)
(* and the insert was rejected by the unique constraint.                   *)
C1_Witness ==
    /\ call = [op |-> "Translation.create", err |-> UniqueViolation]
    /\ Pairs # {}

FieldOfItem(item_id) == {i.field : i \in {x \in ddt_items : x.id = item_id}}

(* C2: a step that deletes a Field removes exactly that Field, every Item  *)
(* whose field it is and every Translation of those Items, and leaves the  *)
(* other Items and Translations and all Languages as they were.            *)
C2_FieldDeleteCascade ==
    [][\A f \in ddt_fields : f \notin ddt_fields' =>
            /\ ddt_fields' = ddt_fields \ {f}
            /\ ddt_items' = {i \in ddt_items : i.field # f.id}
            /\ BagToSet(ddt_translations') =
                    {t \in BagToSet(ddt_translations) : f.id \notin FieldOfItem(t.item)}
            /\ \A t \in BagToSet(ddt_translations') :
                    CopiesIn(t, ddt_translations') = CopiesIn(t, ddt_translations)
            /\ ddt_languages' = ddt_languages]_vars

(* C2 witness: a Field with Items and Translations was just deleted while  *)
(* another Field keeps its Items and Translations.                         *)
C2_Witness ==
    /\ call = [op |-> "Field.delete", err |-> ""]
    /\ pk.item > Cardinality(ddt_items) + 1
    /\ \E f \in ddt_fields : \E i \in ddt_items :
            /\ i.field = f.id
            /\ \E t \in BagToSet(ddt_translations) : t.item = i.id

ObjectExists(content_type, id) ==
    \E o \in objects : o.content_type = content_type /\ o.id = id

(* The part of referential integrity that foreign keys enforce. *)
ForeignKeysHold ==
    /\ \A i \in ddt_items : i.field \in Ids(ddt_fields)
    /\ \A t \in BagToSet(ddt_translations) :
            t.item \in Ids(ddt_items) /\ t.language \in Ids(ddt_languages)

(* C3: in every reachable state every Item references an existing Field    *)
(* and an existing owning object, and every Translation an existing Item   *)
(* and an existing Language.                                               *)
C3_ReferentialIntegrity ==
    /\ ForeignKeysHold
    /\ \A i \in ddt_items : ObjectExists(i.content_type, i.object_id)

TotalMissing ==
    Count(ddt_translations, {t \in BagToSet(ddt_translations) : t.text = ""})

(* C6: the counts of missing translations summed over all Fields, over all *)
(* Items and over all Languages each equal the number of Translation rows  *)
(* with empty text.                                                        *)
C6_CountMissing ==
    /\ Sum(Field_count_missing_translations, ddt_fields) = TotalMissing
    /\ Sum(Item_count_missing_translations, ddt_items) = TotalMissing
    /\ Sum(Language_count_missing_translations, ddt_languages) = TotalMissing

(* C6 witness: two Fields and two Languages, some Translations filled in   *)
(* and some still empty.                                                   *)
C6_Witness ==
    /\ Cardinality(ddt_fields) = 2
    /\ Cardinality(ddt_languages) = 2
    /\ TotalMissing >= 2
    /\ \E t \in BagToSet(ddt_translations) : t.text # ""

(* A code holds no lower-case character. *)
IsUpperCase(code) == \A i \in DOMAIN code : \A j \in DOMAIN LowerChars : code[i] # LowerChars[j]

(* C5: iso2 and iso3 of every Language row are upper case, whatever the    *)
(* case of the values given when the row was created or modified.          *)
C5_CodesUpperCase ==
    \A l \in ddt_languages : IsUpperCase(l.iso2) /\ IsUpperCase(l.iso3)

(* C5 witness: a row was modified and saved with codes that were given in  *)
(* lower or mixed case.                                                    *)
C5_Witness ==
    /\ call = [op |-> "Language.modify", err |-> ""]
    /\ \E l \in ddt_languages : \E i \in LanguageInputs :
            /\ l.name = i.name
            /\ ~ IsUpperCase(i.iso2)
            /\ ~ IsUpperCase(i.iso3)

----------------------------------------------------------------------------
(* TranslatedModel: the lookups of a translated instance *)

(* An absent instance argument (None) and an absent id argument (None). *)
NoRow == [id |-> 0]
NoId == -1

Returned(row) == [err |-> "", row |-> row]
Raised(err) == [err |-> err, row |-> NoRow]

(* QuerySet.get(): the one matching row, else an exception. *)
Get(matches) ==
    IF matches = {} THEN Raised("DoesNotExist")
    ELSE IF Cardinality(matches) > 1 THEN Raised("MultipleObjectsReturned")
    ELSE Returned(CHOOSE r \in matches : TRUE)

(* The same on the Translation table, whose rows may have copies. *)
GetTranslation(matches) ==
    IF Count(ddt_translations, matches) = 0 THEN Raised("DoesNotExist")
    ELSE IF Count(ddt_translations, matches) > 1 THEN Raised("MultipleObjectsReturned")
    ELSE Returned(CHOOSE r \in matches : TRUE)

get_content_type_instance(self) == self.content_type

(* Field.objects.get(name=field_name), the content type left out. *)
get_translated_field_ByNameOnly(self, field_name) ==
    Get({f \in ddt_fields : f.name = field_name})

(* Field.objects.get(content_type=content_type, name=field_name) *)
get_translated_field(self, field_name) ==
    Get({f \in ddt_fields :
            f.content_type = get_content_type_instance(self) /\ f.name = field_name})

get_translated_fields(self) ==
    {f \in ddt_fields : f.content_type = get_content_type_instance(self)}

(* get_translated_item with 'field_name' taking the upper hand over 'field'. *)
get_translated_item_NameFirst(self, field, field_name) ==
    LET f == IF field_name # None THEN get_translated_field(self, field_name)
                                  ELSE Returned(field)
    IN IF f.err # "" THEN f
       ELSE Get({i \in ddt_items : i.object_id = self.id /\ i.field = f.row.id})

(* 'field' takes the upper hand over 'field_name'. *)
get_translated_item(self, field, field_name) ==
    LET f == IF field = NoRow THEN get_translated_field(self, field_name)
                              ELSE Returned(field)
    IN IF f.err # "" THEN f
       ELSE Get({i \in ddt_items : i.object_id = self.id /\ i.field = f.row.id})

get_translated_items(self) ==
    {i \in ddt_items : i.object_id = self.id /\ i.field \in Ids(get_translated_fields(self))}

(* 'language' takes the upper hand over 'language_id'. *)
get_translation(self, field, field_name, language, language_id) ==
    LET item == get_translated_item(self, field, field_name)
    IN IF item.err # "" THEN item
       ELSE LET l == IF language = NoRow
                        THEN Get({x \in ddt_languages : x.id = language_id})
                        ELSE Returned(language)
            IN IF l.err # "" THEN l
               ELSE GetTranslation({t \in BagToSet(ddt_translations) :
                                        t.item = item.row.id /\ t.language = l.row.id})

----------------------------------------------------------------------------
(* Creations only: Fields, Languages and instances, in any order *)

NextCreate ==
    \/ \E c \in ContentTypes, n \in FieldNames : Field_create(c, n)
    \/ \E i \in LanguageInputs : Language_create(i)
    \/ \E c \in ContentTypes : Object_create(c)

SpecCreate == Init /\ [][NextCreate]_vars

(* C4: after Field, Language and instance creations in any order there is  *)
(* exactly one Item per (Field, instance of the Field's model), exactly    *)
(* one Translation per (Item, Language), and get_translation finds a row   *)
(* for every instance, Field of its model and Language.                    *)
C4_TranslationsComplete ==
    /\ \A f \in ddt_fields : \A o \in objects : o.content_type = f.content_type =>
            Cardinality({i \in ddt_items : i.field = f.id /\ i.object_id = o.id}) = 1
    /\ \A i \in ddt_items : \A l \in ddt_languages :
            Count(ddt_translations,
                  {t \in BagToSet(ddt_translations) :
                        t.item = i.id /\ t.language = l.id}) = 1
    /\ \A o \in objects : \A f \in get_translated_fields(o) : \A l \in ddt_languages :
            get_translation(o, NoRow, f.name, NoRow, l.id).err = ""

(* C4 witness: two models with a Field and an instance each and two        *)
(* Languages, the last row created being an instance.                      *)
C4_Witness ==
    /\ call = [op |-> "Object.create", err |-> ""]
    /\ Cardinality(ddt_fields) = 2
    /\ Cardinality(ddt_languages) = 2
    /\ \A c \in ContentTypes : \E o \in objects : o.content_type = c
    /\ BagCardinality(ddt_translations) = 4

----------------------------------------------------------------------------
(* utils.py: the language of the session *)

(* update_user_language with language_id taking the upper hand. *)
update_user_language_IdFirst(language, language_id) ==
    IF language = NoRow /\ language_id = NoId THEN
        [err |-> "TypeError", locale |-> locale, session |-> session]
    ELSE LET l == IF language_id # NoId
                    THEN Get({x \in ddt_languages : x.id = language_id})
                    ELSE Returned(language)
         IN IF l.err # "" THEN [err |-> l.err, locale |-> locale, session |-> session]
            ELSE [err |-> "", locale |-> l.row.django_language_name,
                  session |-> l.row.django_language_name]

(* update_user_language dropping the session language before the lookup. *)
update_user_language_ClearsFirst(language, language_id) ==
    IF language = NoRow /\ language_id = NoId THEN
        [err |-> "TypeError", locale |-> locale, session |-> session]
    ELSE LET l == IF language = NoRow
                    THEN Get({x \in ddt_languages : x.id = language_id})
                    ELSE Returned(language)
         IN IF l.err # "" THEN [err |-> l.err, locale |-> locale, session |-> NoValue]
            ELSE [err |-> "", locale |-> l.row.django_language_name,
                  session |-> l.row.django_language_name]

(* update_user_language(request, language, language_id): the exception    *)
(* raised, the locale activated and the value left in the session.        *)
update_user_language(language, language_id) ==
    IF language = NoRow /\ language_id = NoId THEN
        [err |-> "TypeError", locale |-> locale, session |-> session]
    ELSE LET l == IF language = NoRow
                    THEN Get({x \in ddt_languages : x.id = language_id})
                    ELSE Returned(language)
         IN IF l.err # "" THEN [err |-> l.err, locale |-> locale, session |-> session]
            ELSE [err |-> "", locale |-> l.row.django_language_name,
                  session |-> l.row.django_language_name]

(* A view calls update_user_language. *)
Update_user_language(language, language_id) ==
    /\ LET r == update_user_language(language, language_id)
       IN /\ locale' = r.locale
          /\ session' = r.session
          /\ call' = [op |-> "update_user_language", err |-> r.err,
                      language |-> language, language_id |-> language_id]
    /\ UNCHANGED store

(* The request argument: an HttpRequest carrying the session, or None. *)
Request == "HttpRequest"
NoRequest == None

(* What get_language_from_session returns when it finds no Language. *)
False == [id |-> NoId - 1]

(* get_language_from_session without the 'except Language.DoesNotExist'.  *)
get_language_from_session_NoExcept(request) ==
    IF request = NoRequest THEN [err |-> "AttributeError", row |-> False, queries |-> 0]
    ELSE LET language_name == session
         IN IF language_name # NoValue
              THEN LET l == Get({x \in ddt_languages :
                                    x.django_language_name = language_name})
                   IN [err |-> l.err, row |-> IF l.err = "" THEN l.row ELSE False,
                       queries |-> 1]
              ELSE [err |-> "", row |-> False, queries |-> 0]

(* get_language_from_session(request): the Language row of the session's  *)
(* language or False, and the number of queries made; None has no session. *)
get_language_from_session(request) ==
    IF request = NoRequest THEN [err |-> "AttributeError", row |-> False, queries |-> 0]
    ELSE LET language_name == session
         IN IF language_name # NoValue
              THEN LET l == Get({x \in ddt_languages :
                                    x.django_language_name = language_name})
                   IN [err |-> "", row |-> IF l.err = "" THEN l.row ELSE False,
                       queries |-> 1]
              ELSE [err |-> "", row |-> False, queries |-> 0]

(* The Language arguments a caller can hold: a row of the table or None;  *)
(* the ids: one of a row, one of no row, or None.                         *)
LanguageArgs == ddt_languages \cup {NoRow}
LanguageIdArgs == Ids(ddt_languages) \cup {pk.language, NoId}

NextSession ==
    \/ \E i \in LanguageInputs : Language_create(i)
    \/ \E l \in Ids(ddt_languages), i \in LanguageInputs : Language_modify(l, i)
    \/ \E l \in Ids(ddt_languages) : Language_delete(l)
    \/ \E l \in LanguageArgs, i \in LanguageIdArgs : Update_user_language(l, i)

SpecSession == Init /\ [][NextSession]_vars

(* The Language a call selects: the instance given, else the row of the id. *)
Selected(c) ==
    IF c.language # NoRow THEN c.language
    ELSE CHOOSE x \in ddt_languages : x.id = c.language_id

(* C8: after a successful update_user_language the active locale and the   *)
(* session language are both the django_language_name of the selected      *)
(* Language, the instance taking precedence over the id; so whenever the   *)
(* session holds a language the active locale is that language.            *)
C8_SessionMatchesLocale ==
    /\ (call.op = "update_user_language" /\ call.err = "") =>
            /\ locale = Selected(call).django_language_name
            /\ session = Selected(call).django_language_name
    /\ session # NoValue => locale = session

(* C8 witness: a successful call given both an instance and the id of      *)
(* another row, after an earlier call had selected another language.       *)
C8_Witness ==
    /\ call.op = "update_user_language"
    /\ call.err = ""
    /\ call.language # NoRow
    /\ call.language_id \in Ids(ddt_languages) \ {call.language.id}
    /\ session = call.language.django_language_name

(* C9: update_user_language raises when neither argument is given and when *)
(* only an id of no row is given, and a call that raises leaves the        *)
(* session language and the active locale as they were.                    *)
C9_FailureLeavesSession ==
    /\ [](call.op = "update_user_language" =>
            /\ (call.language = NoRow /\ call.language_id = NoId) => call.err = "TypeError"
            /\ (/\ call.language = NoRow
                /\ call.language_id # NoId
                /\ call.language_id \notin Ids(ddt_languages)) => call.err = "DoesNotExist")
    /\ [][(call'.op = "update_user_language" /\ call'.err # "") =>
            (session' = session /\ locale' = locale)]_vars

(* C9 witness: a call with an id of no row raised while the session held a *)
(* language set by an earlier call.                                        *)
C9_Witness ==
    /\ call.op = "update_user_language"
    /\ call.err = "DoesNotExist"
    /\ session # NoValue
    /\ locale = session

----------------------------------------------------------------------------
(* utils.py: the serializer *)

(* instance._meta.get_fields() of the translated models, in order. *)
AttrOrder == <<"id", "meta_info", "label", "link", "file">>

Null == [tag |-> "None"]
ItemValue(id) == [tag |-> "Item", id |-> id]
ModelValue(ref) == [tag |-> "Model", ref |-> ref]
FileValue(name) == [tag |-> "FieldFile", name |-> name]
Plain(v) == [tag |-> "value", v |-> v]
Dict(d) == [tag |-> "dict", d |-> d]

(* The Item an instance holds under a translated attribute: the one made   *)
(* for (Field of its model with that name, the instance), null without.    *)
ItemAttr(instance, name) ==
    LET found == {i \in ddt_items :
                    /\ i.object_id = instance.id
                    /\ i.content_type = instance.content_type
                    /\ \E f \in ddt_fields : f.id = i.field /\ f.name = name}
    IN IF found = {} THEN Null ELSE ItemValue(Min(Ids(found)))

Deref(ref) == CHOOSE o \in objects : Ref(o) = ref

(* getattr(instance, field.name, None) *)
GetAttr(instance, name) ==
    CASE name = "id" -> Plain(instance.id)
      [] name = "meta_info" -> Plain("meta")
      [] name \in FieldNames -> ItemAttr(instance, name)
      [] name = "link" -> IF instance.link = NoLink THEN Null ELSE ModelValue(instance.link)
      [] name = "file" -> FileValue(instance.file)

(* Translation.objects.filter(item=value).first(): the language left out. *)
TranslatedText_AnyLanguage(item, language) ==
    LET found == {t \in BagToSet(ddt_translations) : t.item = item}
    IN IF found = {} THEN Raised("DoesNotExist")
       ELSE Returned(CHOOSE t \in found : \A u \in found : t.language <= u.language)

(* Translation.objects.get(item=value, language=language) *)
TranslatedText(item, language) ==
    GetTranslation({t \in BagToSet(ddt_translations) :
                        t.item = item /\ t.language = language.id})

Put(d, name, value) ==
    [x \in DOMAIN d \cup {name} |-> IF x = name THEN value ELSE d[x]]

EmptyDict == [x \in {} |-> Null]

(* The loop over the fields from the k-th on; acc is the dict so far with   *)
(* the numbers of attribute reads and of queries. A nested call that would *)
(* visit more instances than exist is on a cycle and never returns: the    *)
(* interpreter ends it with RecursionError.                                *)
RECURSIVE Fields(_, _, _, _, _, _)
Fields(instance, depth, language, fuel, k, acc) ==
    IF k > Len(AttrOrder) \/ acc.err # "" THEN acc
    ELSE LET name == AttrOrder[k]
             value == GetAttr(instance, name)
             read == [acc EXCEPT !.reads = @ + 1]
             next ==
                CASE value.tag = "None" -> read
                  [] value.tag = "Item" ->
                        LET t == TranslatedText(value.id, language)
                        IN IF t.err # ""
                            THEN [read EXCEPT !.err = t.err, !.queries = @ + 1]
                            ELSE [read EXCEPT !.d = Put(@, name, Plain(t.row.text)),
                                              !.queries = @ + 1]
                  [] value.tag = "Model" ->
                        IF depth
                            THEN IF fuel = 0 THEN [read EXCEPT !.err = "RecursionError"]
                                 ELSE LET sub == Fields(Deref(value.ref), TRUE, language,
                                                        fuel - 1, 1,
                                                        [err |-> "", d |-> EmptyDict,
                                                         reads |-> 0, queries |-> 0])
                                      IN [err |-> sub.err,
                                          d |-> IF sub.err = ""
                                                  THEN Put(read.d, name, Dict(sub.d))
                                                  ELSE read.d,
                                          reads |-> read.reads + sub.reads,
                                          queries |-> read.queries + sub.queries]
                            ELSE [read EXCEPT !.d = Put(@, name, value)]
                  [] value.tag = "FieldFile" ->
                        IF value.name # ""
                            THEN [read EXCEPT !.d = Put(@, name,
                                        Dict([name |-> Plain(value.name),
                                              url |-> Plain(<<"url", value.name>>),
                                              path |-> Plain(<<"path", value.name>>)]))]
                            ELSE [read EXCEPT !.d = Put(@, name, Plain(""))]
                  [] OTHER -> [read EXCEPT !.d = Put(@, name, value)]
         IN Fields(instance, depth, language, fuel, k + 1, next)

(* The argument check that never raises. *)
ArgumentsMissing_Never(language, request) == FALSE

(* language is None and request is None *)
ArgumentsMissing(language, request) == language = NoRow /\ request = NoRequest

Start(queries) == [err |-> "", d |-> EmptyDict, reads |-> 0, queries |-> queries]

(* instance_as_translated_dict(instance, depth, language, request) *)
instance_as_translated_dict(instance, depth, language, request) ==
    IF ArgumentsMissing(language, request) THEN [Start(0) EXCEPT !.err = "TypeError"]
    ELSE LET s == IF language = NoRow THEN get_language_from_session(request)
                  ELSE [err |-> "", row |-> language, queries |-> 0]
         IN IF s.err # "" THEN [Start(s.queries) EXCEPT !.err = s.err]
            ELSE Fields(instance, depth, s.row, Cardinality(objects) - 1, 1,
                        Start(s.queries))

(* The loop of all_instances_as_translated_dict from the k-th instance on;  *)
(* acc.d is the list of dicts so far.                                      *)
RECURSIVE Instances(_, _, _, _, _)
Instances(instances, depth, language, k, acc) ==
    IF k > Len(instances) \/ acc.err # "" THEN acc
    ELSE LET r == instance_as_translated_dict(instances[k], depth, language, NoRequest)
         IN Instances(instances, depth, language, k + 1,
                      [err |-> r.err,
                       d |-> IF r.err = "" THEN Append(acc.d, r.d) ELSE acc.d,
                       reads |-> acc.reads + r.reads,
                       queries |-> acc.queries + r.queries])

(* all_instances_as_translated_dict(instances, depth, language, request) *)
all_instances_as_translated_dict(instances, depth, language, request) ==
    IF ArgumentsMissing(language, request)
        THEN [err |-> "TypeError", d |-> <<>>, reads |-> 0, queries |-> 0]
    ELSE LET s == IF language = NoRow THEN get_language_from_session(request)
                  ELSE [err |-> "", row |-> language, queries |-> 0]
         IN IF s.err # ""
              THEN [err |-> s.err, d |-> <<>>, reads |-> 0, queries |-> s.queries]
              ELSE Instances(instances, depth, s.row, 1,
                             [err |-> "", d |-> <<>>, reads |-> 0, queries |-> s.queries])

Serializers == {"instance_as_translated_dict", "all_instances_as_translated_dict"}

(* A view serializes one instance; the view that called a serializer ends  *)
(* (Return) before another one calls it.                                   *)
Instance_as_translated_dict(instance, depth, language, request) ==
    /\ call.op \notin Serializers
    /\ instance \in objects
    /\ call' = [op |-> "instance_as_translated_dict", instance |-> Ref(instance),
                depth |-> depth, language |-> language, request |-> request,
                result |-> instance_as_translated_dict(instance, depth, language, request)]
    /\ UNCHANGED <<store, session, locale>>

(* A view serializes an iterable of instances. *)
All_instances_as_translated_dict(instances, depth, language, request) ==
    /\ call.op \notin Serializers
    /\ call' = [op |-> "all_instances_as_translated_dict",
                instances |-> [k \in DOMAIN instances |-> Ref(instances[k])],
                depth |-> depth, language |-> language, request |-> request,
                result |-> all_instances_as_translated_dict(instances, depth,
                                                            language, request)]
    /\ UNCHANGED <<store, session, locale>>

(* The calls that only read the store. *)
Reads == Serializers \cup {"get_translation"}

(* The view that made such a call ends: its result is dropped. *)
Return ==
    /\ call.op \in Reads
    /\ call' = [op |-> "return", err |-> ""]
    /\ UNCHANGED <<store, session, locale>>

(* The iterables handed to all_instances_as_translated_dict. *)
InstanceLists ==
    {<<>>} \cup {<<o>> : o \in objects}
           \cup {<<op[1], op[2]>> : op \in {x \in objects \X objects : x[1].id < x[2].id}}

RequestArgs == {Request, NoRequest}

(* The serializer is exercised on stores built by at most MaxSerialOps     *)
(* writes: creations, and updates of the instances and of the texts.       *)
MaxSerialOps == 5

Building == ops < MaxSerialOps

NextSerial ==
    \/ Building /\ \E c \in ContentTypes, n \in FieldNames : Field_create(c, n)
    \/ Building /\ \E i \in LanguageInputs : Language_create(i)
    \/ Building /\ \E c \in ContentTypes : Object_create(c)
    \/ Building /\ \E o \in objects, x \in objects : Object_update(o, Ref(x), o.file)
    \/ Building /\ \E o \in objects, f \in Files : Object_update(o, o.link, f)
    \/ Building /\ \E t \in BagToSet(ddt_translations), x \in Texts :
            Translation_update(t, x)
    \/ \E l \in ddt_languages : Update_user_language(l, NoId)
    \/ \E o \in objects, d \in BOOLEAN, l \in LanguageArgs, r \in RequestArgs :
            Instance_as_translated_dict(o, d, l, r)
    \/ \E os \in InstanceLists, d \in BOOLEAN, l \in LanguageArgs, r \in RequestArgs :
            All_instances_as_translated_dict(os, d, l, r)
    \/ Return

SpecSerial == Init /\ [][NextSerial]_vars

(* C7: serializing with neither a language nor a request raises TypeError  *)
(* before any attribute is read and before any query is made, and returns  *)
(* no dict.                                                                *)
C7_NoLanguageNoRequest ==
    (call.op \in Serializers /\ call.language = NoRow /\ call.request = NoRequest) =>
        /\ call.result.err = "TypeError"
        /\ call.result.reads = 0
        /\ call.result.queries = 0
        /\ DOMAIN call.result.d = {}

(* C7 witness: the call was made on an instance that has a translated      *)
(* attribute and a Translation to look up.                                 *)
C7_Witness ==
    /\ call.op = "instance_as_translated_dict"
    /\ call.language = NoRow
    /\ call.request = NoRequest
    /\ ItemAttr(Deref(call.instance), "label") # Null
    /\ ddt_translations # EmptyBag
    /\ session # NoValue

(* What a dict must hold for an instance: under every attribute that is an *)
(* Item the text of its Translation in the language; under every attribute *)
(* that is another instance its dict, likewise, with depth, and the         *)
(* instance itself without.                                                *)
RECURSIVE Conforms(_, _, _, _, _)
Conforms(d, instance, language, depth, n) ==
    \A k \in DOMAIN AttrOrder :
        LET name == AttrOrder[k]
            value == GetAttr(instance, name)
        IN /\ value.tag = "Item" =>
                /\ name \in DOMAIN d
                /\ \E t \in BagToSet(ddt_translations) :
                        /\ t.item = value.id
                        /\ t.language = language.id
                        /\ d[name] = Plain(t.text)
           /\ value.tag = "Model" =>
                /\ name \in DOMAIN d
                /\ IF depth
                     THEN /\ d[name].tag = "dict"
                          /\ n > 0
                          /\ Conforms(d[name].d, Deref(value.ref), language, TRUE, n - 1)
                     ELSE d[name] = value

(* The Language a serializer call resolves: the one given, else the row of *)
(* the session's language, else False.                                     *)
ResolvedLanguages ==
    IF call.language # NoRow THEN {call.language}
    ELSE IF \E l \in ddt_languages : l.django_language_name = session
        THEN {l \in ddt_languages : l.django_language_name = session}
        ELSE {False}

(* C10: in the dict instance_as_translated_dict returns, every attribute   *)
(* that is an Item holds the text of that Item's Translation in the        *)
(* resolved Language, at every nesting level; with depth every attribute   *)
(* that is another instance holds that instance's dict, and without depth  *)
(* it holds the instance unconverted.                                      *)
C10_TranslatedDict ==
    (call.op = "instance_as_translated_dict" /\ call.result.err = "") =>
        \E l \in ResolvedLanguages :
            Conforms(call.result.d, Deref(call.instance), l, call.depth,
                     Cardinality(objects))

(* C10 witness: a dict made with depth, in the language of the session,    *)
(* for an instance with a translated attribute that links to another       *)
(* instance with a translated attribute.                                   *)
C10_Witness ==
    /\ call.op = "instance_as_translated_dict"
    /\ call.result.err = ""
    /\ call.depth
    /\ call.language = NoRow
    /\ {"label", "link"} \subseteq DOMAIN call.result.d
    /\ "label" \in DOMAIN call.result.d["link"].d

----------------------------------------------------------------------------
(* TranslatedModel.get_translation over stores with creations and deletions *)

(* A view calls instance.get_translation(field, field_name, language,      *)
(* language_id); the view ends (Return) before another one calls it.       *)
Get_translation(self, field, field_name, language, language_id) ==
    /\ call.op \notin Reads
    /\ self \in objects
    /\ call' = [op |-> "get_translation", self |-> Ref(self), field |-> field,
                field_name |-> field_name, language |-> language,
                language_id |-> language_id,
                result |-> get_translation(self, field, field_name, language,
                                           language_id)]
    /\ UNCHANGED <<store, session, locale>>

(* The arguments a caller can hold: a Field row or None; the name of a     *)
(* translated field, a name no Field has, or None.                         *)
FieldArgs == ddt_fields \cup {NoRow}
FieldNameArgs == FieldNames \cup {"title", None}

(* The lookups are exercised on stores built by at most MaxLookupOps       *)
(* writes of any kind.                                                     *)
MaxLookupOps == 5

NextLookup ==
    \/ ops < MaxLookupOps /\ Next
    \/ \E o \in objects, f \in FieldArgs, n \in FieldNameArgs,
          l \in LanguageArgs, i \in LanguageIdArgs : Get_translation(o, f, n, l, i)
    \/ Return

SpecLookup == Init /\ [][NextLookup]_vars

(* The Fields, Items, Languages and Translations a call selects. *)
SelectedFields(c) ==
    IF c.field # NoRow THEN {c.field}
    ELSE {f \in ddt_fields : f.content_type = c.self.content_type /\ f.name = c.field_name}

SelectedItems(c) ==
    {i \in ddt_items : i.object_id = c.self.id /\ i.field \in Ids(SelectedFields(c))}

SelectedLanguages(c) ==
    IF c.language # NoRow THEN {c.language}
    ELSE {l \in ddt_languages : l.id = c.language_id}

SelectedTranslations(c) ==
    {t \in BagToSet(ddt_translations) :
        t.item \in Ids(SelectedItems(c)) /\ t.language \in Ids(SelectedLanguages(c))}

(* C11: get_translation returns the one Translation of the Item with the   *)
(* instance's id and the selected Field, in the selected Language, where a *)
(* Field instance goes before field_name, a Language instance before       *)
(* language_id and a field_name names the Field of the instance's own      *)
(* content type; it raises DoesNotExist when the Field, Item, Language or  *)
(* Translation is missing; and it leaves the store as it was.              *)
C11_GetTranslation ==
    /\ [](call.op = "get_translation" =>
            IF SelectedTranslations(call) = {}
                THEN call.result.err = "DoesNotExist"
                ELSE /\ call.result.err = ""
                     /\ SelectedTranslations(call) = {call.result.row}
                     /\ Count(ddt_translations, {call.result.row}) = 1)
    /\ [][call'.op = "get_translation" => store' = store]_vars

(* C11 witness: a call given a Field instance and the name of no Field, a  *)
(* Language instance and the id of another row, returned the Translation   *)
(* of the instances given.                                                 *)
C11_Witness ==
    /\ call.op = "get_translation"
    /\ call.result.err = ""
    /\ call.field # NoRow
    /\ call.field_name = "title"
    /\ call.language # NoRow
    /\ call.language_id \in Ids(ddt_languages) \ {call.language.id}
    /\ call.result.row.language = call.language.id

----------------------------------------------------------------------------
(* utils.py: get_language_from_session over the Language table *)

(* A view calls get_language_from_session(request). *)
Get_language_from_session(request) ==
    /\ call' = [op |-> "get_language_from_session", request |-> request,
                result |-> get_language_from_session(request)]
    /\ UNCHANGED <<store, session, locale>>

NextSessionRead ==
    \/ NextSession
    \/ \E r \in RequestArgs : Get_language_from_session(r)

SpecSessionRead == Init /\ [][NextSessionRead]_vars

(* The Language rows named by the session's language. *)
SessionLanguages == {l \in ddt_languages : l.django_language_name = session}

(* C12: given a request, get_language_from_session returns the Language    *)
(* row whose django_language_name is the session's language, and returns   *)
(* False, raising nothing, when the session holds no language or no row    *)
(* has that name; it leaves the session as it was.                         *)
C12_LanguageFromSession ==
    /\ []((call.op = "get_language_from_session" /\ call.request = Request) =>
            /\ call.result.err = ""
            /\ IF SessionLanguages = {}
                 THEN call.result.row = False
                 ELSE SessionLanguages = {call.result.row})
    /\ [][call'.op = "get_language_from_session" =>
            (session' = session /\ locale' = locale /\ store' = store)]_vars

(* C12 witness: the call returned False for a session whose language has   *)
(* no row any more, while other Languages exist.                           *)
C12_Witness ==
    /\ call.op = "get_language_from_session"
    /\ call.request = Request
    /\ session # NoValue
    /\ ddt_languages # {}
    /\ call.result.row = False

----------------------------------------------------------------------------
(* utils.py: the serializer on instances that link to each other *)

(* The instances reached from an instance by following links, itself       *)
(* included when a link leads back to it.                                  *)
RECURSIVE Linked(_, _)
Linked(ref, n) ==
    IF n = 0 \/ Deref(ref).link = NoLink THEN {}
    ELSE {Deref(ref).link} \cup Linked(Deref(ref).link, n - 1)

OnCycle(ref) == \E r \in Linked(ref, Cardinality(objects)) \cup {ref} :
                    r \in Linked(r, Cardinality(objects))

(* C13: instance_as_translated_dict with depth ends and returns a dict on  *)
(* every graph of instances, those with a cycle of links included: no call *)
(* ends in the interpreter's RecursionError.                               *)
C13_DepthTerminates ==
    (call.op = "instance_as_translated_dict" /\ call.depth) =>
        call.result.err # "RecursionError"

(* Without a cycle of links the call with depth never exhausts the stack,  *)
(* and on a cycle it never returns a dict.                                 *)
RecursionOnlyOnCycles ==
    (call.op = "instance_as_translated_dict" /\ call.result.err = "RecursionError") =>
        call.depth /\ OnCycle(call.instance)

====
